---- MODULE Spec2Model ----
(***************************************************************************)
(* A model of the kqueue backend of the poller (src/src/kqueue.rs): the    *)
(* Poller's kernel queue and wake channel, the Events buffer, and the      *)
(* operations new, interest, remove, wait, notify and drop.  The kernel    *)
(* queue is modelled by the set of its registrations (knotes) and by what  *)
(* kevent(2) does with a change list and with a wait.                      *)
(***************************************************************************)
EXTENDS Integers, Sequences, FiniteSets, TLC

(* ------------------------------ bounds --------------------------------- *)
\* number of descriptors the caller owns
NumFds == 1
\* number of keys the caller uses (the reserved key is not among them)
NumKeys == 2
\* number of slots of the Events buffer (1000 in Events::new)
Capacity == 2
\* number of bytes the wake channel's socket buffer holds
PipeCap == 2
\* width of usize in the model
UsizeBits == 3
\* number of calls the Poller's callers make in one behaviour
MaxCalls == 4

(* --------------------------- program constants ------------------------- *)
ENOENT == 2
EINTR == 4
EBADF == 9
ENOMEM == 12
EPIPE == 32
ReadBuf == 64

USIZE_MAX == (2 ^ UsizeBits) - 1
NOTIFY_KEY == USIZE_MAX

EVFILT_READ == "EVFILT_READ"
EVFILT_WRITE == "EVFILT_WRITE"
Filters == {EVFILT_READ, EVFILT_WRITE}

UserFds == 1 .. NumFds
read_stream == NumFds + 1
write_stream == NumFds + 2
AllFds == UserFds \cup {read_stream, write_stream}
Keys == 0 .. (NumKeys - 1)

\* crate::Event values a caller passes to interest
Event == [key : Keys, readable : BOOLEAN, writable : BOOLEAN]
\* the Event that new() and wait() register for the wake channel's read side
NotifyEvent == [key |-> NOTIFY_KEY, readable |-> TRUE, writable |-> FALSE]

\* io::Result values: Ok(val) or Err(os error val)
Ok(n) == [ok |-> TRUE, val |-> n]
Err(e) == [ok |-> FALSE, val |-> e]

\* the zeroed libc::kevent that Events::new fills the buffer with
ZeroKevent == [ident |-> 0, filter |-> "0", flags |-> {}, udata |-> 0]

VARIABLES
    alive,      \* the Poller exists (constructed, not yet dropped)
    knotes,     \* the kernel queue's registrations: [ident, filter, flags, udata]
    pipe,       \* bytes buffered in the wake channel
    readable,   \* caller descriptors with unread data
    writable,   \* caller descriptors with room to write
    eof,        \* caller descriptors whose peer closed its writing side
    events,     \* the Events buffer: [list, len]
    pc,         \* where the thread calling wait is: idle, kevent, drain, rereg
    timeout,    \* the timeout of the wait call in progress: "None" or "Some"
    ret,        \* what the last call that returned returned: [op, res]; for iter, the
                \* number of Events it yielded
    calls,      \* number of calls made so far
    eventlist,  \* the event list a check loop of interest or remove reads
    lapsed,     \* history: the caller's (fd, filter) reported and not re-added since
    drainErr,   \* history: the drain of the wait in progress ended on a read error
    lostByte,   \* history: the write of the last notify found the channel full
    yielded,    \* the Events the last iteration over the buffer yielded since the
                \* last wait was called
    concurrent  \* history: the calls of interest and remove that returned while the
                \* wait in progress was blocked in the kernel

descriptors == <<readable, writable, eof>>
vars == <<alive, knotes, pipe, descriptors, events, pc, timeout, ret, calls,
          eventlist, lapsed, drainErr, lostByte, yielded, concurrent>>

(* ------------------------------ the kernel ----------------------------- *)
\* the registration of (fd, filter), as a set of at most one knote
KnotesOf(kn, fd, filter) == {k \in kn : k.ident = fd /\ k.filter = filter}

\* whether the filter's condition holds for the descriptor right now
Ready(fd, filter) ==
    IF fd = read_stream THEN filter = EVFILT_READ /\ pipe > 0
    ELSE IF fd = write_stream THEN filter = EVFILT_WRITE /\ pipe < PipeCap
    ELSE IF filter = EVFILT_READ THEN fd \in readable \/ fd \in eof
    ELSE fd \in writable

\* the registrations the kernel would report to a wait right now
ActiveKnotes == {k \in knotes : Ready(k.ident, k.filter)}

\* the record the kernel writes into the event list for an active knote
RawEvent(k) ==
    [ident |-> k.ident, filter |-> k.filter, udata |-> k.udata,
     flags |-> k.flags \cup
               (IF k.filter = EVFILT_READ /\ k.ident \in eof THEN {"EV_EOF"} ELSE {})]

\* the codes the kernel may report for one change of a change list: a change of
\* an existing registration succeeds; a new registration may fail for lack of
\* memory, and a new write registration with EPIPE when the peer is gone; a
\* removal of no registration reports ENOENT, or EBADF for a descriptor the
\* caller closed
ChangeOutcomes(kn, ch, faults) ==
    IF KnotesOf(kn, ch.ident, ch.filter) # {}
    THEN {0}
    ELSE IF "EV_ADD" \in ch.flags
    THEN {0} \cup (IF faults THEN {ENOMEM} ELSE {})
             \cup (IF faults /\ ch.filter = EVFILT_WRITE THEN {EPIPE} ELSE {})
    ELSE {ENOENT} \cup (IF faults /\ ch.ident \in UserFds THEN {EBADF} ELSE {})

\* the registrations after the kernel processed change ch with outcome code
ApplyChange(kn, ch, code) ==
    IF code # 0 THEN kn
    ELSE IF "EV_ADD" \in ch.flags
    THEN (kn \ KnotesOf(kn, ch.ident, ch.filter)) \cup
         {[ident |-> ch.ident, filter |-> ch.filter, udata |-> ch.udata,
           flags |-> ch.flags \cap {"EV_ONESHOT"}]}
    ELSE kn \ KnotesOf(kn, ch.ident, ch.filter)

\* the EV_RECEIPT record the kernel writes back for change ch
Receipt(ch, code) ==
    [ident |-> ch.ident, filter |-> ch.filter, udata |-> ch.udata,
     flags |-> ch.flags \cup {"EV_ERROR"}, data |-> code]

\* the kevent call of interest/remove: the registrations and the event list after it
KeventChanges(kn, changelist, codes) ==
    [knotes |-> ApplyChange(ApplyChange(kn, changelist[1], codes[1]),
                            changelist[2], codes[2]),
     eventlist |-> << Receipt(changelist[1], codes[1]),
                      Receipt(changelist[2], codes[2]) >>]

\* the outcomes the kernel may report for the two changes of a change list
CodesFor(kn, changelist, faults) ==
    ChangeOutcomes(kn, changelist[1], faults) \X ChangeOutcomes(kn, changelist[2], faults)

(* ------------------------------ interest ------------------------------- *)
\* read_flags without EV_ONESHOT
read_flagsKept(ev) ==
    {"EV_RECEIPT"} \cup (IF ev.readable THEN {"EV_ADD"} ELSE {"EV_DELETE"})

read_flags(ev) ==
    {"EV_ONESHOT", "EV_RECEIPT"} \cup (IF ev.readable THEN {"EV_ADD"} ELSE {"EV_DELETE"})

\* write_flags that add the registration whatever the Event says
write_flagsAdd(ev) == {"EV_ONESHOT", "EV_RECEIPT", "EV_ADD"}

write_flags(ev) ==
    {"EV_ONESHOT", "EV_RECEIPT"} \cup (IF ev.writable THEN {"EV_ADD"} ELSE {"EV_DELETE"})

InterestChangelist(fd, ev) ==
    << [ident |-> fd, filter |-> EVFILT_READ, flags |-> read_flags(ev),
        data |-> 0, udata |-> ev.key],
       [ident |-> fd, filter |-> EVFILT_WRITE, flags |-> write_flags(ev),
        data |-> 0, udata |-> ev.key] >>

\* a check loop that tolerates EPIPE on the write filter only
RECURSIVE InterestCheckWriteOnly(_)
InterestCheckWriteOnly(list) ==
    IF list = << >> THEN Ok(0)
    ELSE LET e == Head(list) IN
         IF /\ "EV_ERROR" \in e.flags /\ e.data # 0 /\ e.data # ENOENT
            /\ ~(e.data = EPIPE /\ e.filter = EVFILT_WRITE)
         THEN Err(e.data)
         ELSE InterestCheckWriteOnly(Tail(list))

\* the loop of interest that checks the event list for errors
RECURSIVE InterestCheck(_)
InterestCheck(list) ==
    IF list = << >> THEN Ok(0)
    ELSE LET e == Head(list) IN
         IF "EV_ERROR" \in e.flags /\ e.data # 0 /\ e.data # ENOENT /\ e.data # EPIPE
         THEN Err(e.data)
         ELSE InterestCheck(Tail(list))

\* an interest that undoes both sub-changes when it fails
interestAtomic(kn, fd, ev, codes) ==
    LET k == KeventChanges(kn, InterestChangelist(fd, ev), codes) IN
    [knotes |-> IF InterestCheck(k.eventlist).ok THEN k.knotes ELSE kn,
     res |-> InterestCheck(k.eventlist)]

\* Poller::interest as a whole, for the kernel outcomes codes
interest(kn, fd, ev, codes) ==
    LET k == KeventChanges(kn, InterestChangelist(fd, ev), codes) IN
    [knotes |-> k.knotes, res |-> InterestCheck(k.eventlist)]

\* the directions an Event enables, as (fd, filter) pairs
Enabled(fd, ev) ==
    (IF ev.readable THEN {<<fd, EVFILT_READ>>} ELSE {}) \cup
    (IF ev.writable THEN {<<fd, EVFILT_WRITE>>} ELSE {})

\* an interest that, while a wait is in progress, returns without telling the kernel
InterestKDeferred(fd, ev, codes) ==
    /\ alive
    /\ calls < MaxCalls
    /\ codes \in CodesFor(knotes, InterestChangelist(fd, ev), TRUE)
    /\ calls' = calls + 1
    /\ knotes' = IF pc = "idle" THEN interest(knotes, fd, ev, codes).knotes ELSE knotes
    /\ ret' = [op |-> "interest", res |-> interest(knotes, fd, ev, codes).res]
    /\ lapsed' = lapsed \ Enabled(fd, ev)
    /\ concurrent' = IF pc = "kevent" THEN concurrent \cup {"interest"} ELSE concurrent
    /\ UNCHANGED <<alive, pipe, descriptors, events, pc, timeout, eventlist, drainErr,
                   lostByte, yielded>>

\* a call of interest(fd, ev) in which the kernel reports codes
InterestK(fd, ev, codes) ==
    /\ alive
    /\ calls < MaxCalls
    /\ codes \in CodesFor(knotes, InterestChangelist(fd, ev), TRUE)
    /\ calls' = calls + 1
    /\ knotes' = interest(knotes, fd, ev, codes).knotes
    /\ ret' = [op |-> "interest", res |-> interest(knotes, fd, ev, codes).res]
    /\ lapsed' = lapsed \ Enabled(fd, ev)
    /\ concurrent' = IF pc = "kevent" THEN concurrent \cup {"interest"} ELSE concurrent
    /\ UNCHANGED <<alive, pipe, descriptors, events, pc, timeout, eventlist, drainErr,
                   lostByte, yielded>>

Interest(fd, ev, faults) ==
    \E codes \in CodesFor(knotes, InterestChangelist(fd, ev), faults) :
        InterestK(fd, ev, codes)

(* ------------------------------- remove -------------------------------- *)
RemoveChangelist(fd) ==
    << [ident |-> fd, filter |-> EVFILT_READ, flags |-> {"EV_DELETE", "EV_RECEIPT"},
        data |-> 0, udata |-> 0],
       [ident |-> fd, filter |-> EVFILT_WRITE, flags |-> {"EV_DELETE", "EV_RECEIPT"},
        data |-> 0, udata |-> 0] >>

\* a check loop that reports no error
RemoveCheckNone(list) == Ok(0)

\* the loop of remove that checks the event list for errors
RECURSIVE RemoveCheck(_)
RemoveCheck(list) ==
    IF list = << >> THEN Ok(0)
    ELSE LET e == Head(list) IN
         IF "EV_ERROR" \in e.flags /\ e.data # 0 /\ e.data # ENOENT
         THEN Err(e.data)
         ELSE RemoveCheck(Tail(list))

\* Poller::remove as a whole, for the kernel outcomes codes
remove(kn, fd, codes) ==
    LET k == KeventChanges(kn, RemoveChangelist(fd), codes) IN
    [knotes |-> k.knotes, res |-> RemoveCheck(k.eventlist)]

\* a call of remove(fd) in which the kernel reports codes
RemoveK(fd, codes) ==
    /\ alive
    /\ calls < MaxCalls
    /\ codes \in CodesFor(knotes, RemoveChangelist(fd), TRUE)
    /\ calls' = calls + 1
    /\ knotes' = remove(knotes, fd, codes).knotes
    /\ ret' = [op |-> "remove", res |-> remove(knotes, fd, codes).res]
    /\ concurrent' = IF pc = "kevent" THEN concurrent \cup {"remove"} ELSE concurrent
    /\ UNCHANGED <<alive, pipe, descriptors, events, pc, timeout, eventlist, lapsed,
                   drainErr, lostByte, yielded>>

Remove(fd, faults) ==
    \E codes \in CodesFor(knotes, RemoveChangelist(fd), faults) :
        RemoveK(fd, codes)

(* ------------------------------- notify -------------------------------- *)
\* a write that never reaches the channel
WriteByteLost(p) == p

\* the non-blocking write of one byte: lost when the channel is full
WriteByte(p) == IF p < PipeCap THEN p + 1 ELSE p

\* a notify whose write waits for room in the channel
NotifyBlocking ==
    /\ alive
    /\ calls < MaxCalls
    /\ pipe < PipeCap
    /\ calls' = calls + 1
    /\ pipe' = pipe + 1
    /\ ret' = [op |-> "notify", res |-> Ok(0)]
    /\ lostByte' = FALSE
    /\ UNCHANGED <<alive, knotes, descriptors, events, pc, timeout, eventlist, lapsed,
                   drainErr, yielded, concurrent>>

Notify ==
    /\ alive
    /\ calls < MaxCalls
    /\ calls' = calls + 1
    /\ pipe' = WriteByte(pipe)
    /\ ret' = [op |-> "notify", res |-> Ok(0)]
    /\ lostByte' = (WriteByte(pipe) = pipe)
    /\ UNCHANGED <<alive, knotes, descriptors, events, pc, timeout, eventlist, lapsed,
                   drainErr, yielded, concurrent>>

(* -------------------------------- wait --------------------------------- *)
WaitCall(t) ==
    /\ alive
    /\ pc = "idle"
    /\ calls < MaxCalls
    /\ calls' = calls + 1
    /\ pc' = "kevent"
    /\ timeout' = t
    /\ concurrent' = {}
    /\ yielded' = << >>
    /\ UNCHANGED <<alive, knotes, pipe, descriptors, events, ret, eventlist, lapsed,
                   drainErr, lostByte>>

\* the sequences of n distinct elements of S
RECURSIVE Arrangements(_, _)
Arrangements(S, n) ==
    IF n = 0 THEN {<< >>}
    ELSE UNION {{<<x>> \o s : s \in Arrangements(S \ {x}, n - 1)} : x \in S}

Min(a, b) == IF a < b THEN a ELSE b

\* the records the kernel may write for a wait: as many active registrations as
\* the event list holds, in any order
Scan(active) == Arrangements(active, Min(Cardinality(active), Capacity))

\* the buffer after the kernel wrote the records recs over its first slots
Fill(list, recs) ==
    [i \in 1 .. Capacity |-> IF i <= Len(recs) THEN recs[i] ELSE list[i]]

\* a report that consumes every ready registration, reported or not
AfterReportAll(kn, ks) == {k \in kn : ~Ready(k.ident, k.filter)}

\* the registrations left once the kernel reported the knotes ks
AfterReport(kn, ks) == kn \ {k \in ks : "EV_ONESHOT" \in k.flags}

\* a wait that takes the length of the buffer for the count the kernel returned
EventsAfterFull(ev, recs, res) == [list |-> Fill(ev.list, recs), len |-> Capacity]

\* a wait whose kernel call writes its records elsewhere than into the buffer
EventsAfterKept(ev, recs, res) == [list |-> ev.list, len |-> res]

\* the Events buffer after a kevent call that returned res records
EventsAfter(ev, recs, res) == [list |-> Fill(ev.list, recs), len |-> res]

\* a wait that stores a count of 0 in the buffer when its kernel call fails
WaitKeventClearing(faults) ==
    /\ pc = "kevent"
    /\ \/ /\ ActiveKnotes # {}
          /\ \E ks \in Scan(ActiveKnotes) :
                /\ events' = EventsAfter(events, [i \in 1 .. Len(ks) |-> RawEvent(ks[i])],
                                         Len(ks))
                /\ knotes' = AfterReport(knotes, {ks[i] : i \in 1 .. Len(ks)})
                /\ lapsed' = lapsed \cup
                             {<<ks[i].ident, ks[i].filter>> :
                                 i \in {j \in 1 .. Len(ks) : ks[j].ident \in UserFds}}
          /\ pc' = "drain"
          /\ UNCHANGED <<ret, timeout, concurrent>>
       \/ /\ ActiveKnotes = {}
          /\ timeout = "Some"
          /\ events' = EventsAfter(events, << >>, 0)
          /\ pc' = "drain"
          /\ UNCHANGED <<knotes, ret, timeout, lapsed, concurrent>>
       \/ /\ faults
          /\ pc' = "idle"
          /\ timeout' = "None"
          /\ ret' = [op |-> "wait", res |-> Err(EINTR)]
          /\ concurrent' = {}
          /\ events' = [events EXCEPT !.len = 0]
          /\ UNCHANGED <<knotes, lapsed>>
    /\ UNCHANGED <<alive, pipe, descriptors, calls, eventlist, drainErr, lostByte,
                   yielded>>

\* a wait whose kernel call returns empty-handed whatever the timeout
WaitKeventPolling(faults) ==
    /\ pc = "kevent"
    /\ \/ /\ ActiveKnotes # {}
          /\ \E ks \in Scan(ActiveKnotes) :
                /\ events' = EventsAfter(events, [i \in 1 .. Len(ks) |-> RawEvent(ks[i])],
                                         Len(ks))
                /\ knotes' = AfterReport(knotes, {ks[i] : i \in 1 .. Len(ks)})
                /\ lapsed' = lapsed \cup
                             {<<ks[i].ident, ks[i].filter>> :
                                 i \in {j \in 1 .. Len(ks) : ks[j].ident \in UserFds}}
          /\ pc' = "drain"
          /\ UNCHANGED <<ret, timeout, concurrent>>
       \/ /\ ActiveKnotes = {}
          /\ events' = EventsAfter(events, << >>, 0)
          /\ pc' = "drain"
          /\ UNCHANGED <<knotes, ret, timeout, lapsed, concurrent>>
       \/ /\ faults
          /\ pc' = "idle"
          /\ timeout' = "None"
          /\ ret' = [op |-> "wait", res |-> Err(EINTR)]
          /\ concurrent' = {}
          /\ UNCHANGED <<knotes, events, lapsed>>
    /\ UNCHANGED <<alive, pipe, descriptors, calls, eventlist, drainErr, lostByte,
                   yielded>>

\* the kevent call of wait returns
WaitKevent(faults) ==
    /\ pc = "kevent"
    /\ \/ /\ ActiveKnotes # {}
          /\ \E ks \in Scan(ActiveKnotes) :
                /\ events' = EventsAfter(events, [i \in 1 .. Len(ks) |-> RawEvent(ks[i])],
                                         Len(ks))
                /\ knotes' = AfterReport(knotes, {ks[i] : i \in 1 .. Len(ks)})
                /\ lapsed' = lapsed \cup
                             {<<ks[i].ident, ks[i].filter>> :
                                 i \in {j \in 1 .. Len(ks) : ks[j].ident \in UserFds}}
          /\ pc' = "drain"
          /\ UNCHANGED <<ret, timeout, concurrent>>
       \/ /\ ActiveKnotes = {}
          /\ timeout = "Some"
          /\ events' = EventsAfter(events, << >>, 0)
          /\ pc' = "drain"
          /\ UNCHANGED <<knotes, ret, timeout, lapsed, concurrent>>
       \/ /\ faults
          /\ pc' = "idle"
          /\ timeout' = "None"
          /\ ret' = [op |-> "wait", res |-> Err(EINTR)]
          /\ concurrent' = {}
          /\ UNCHANGED <<knotes, events, lapsed>>
    /\ UNCHANGED <<alive, pipe, descriptors, calls, eventlist, drainErr, lostByte,
                   yielded>>

\* one read of the loop that drains the wake channel
WaitDrain(faults) ==
    /\ pc = "drain"
    /\ \/ /\ pipe > 0
          /\ pipe' = pipe - Min(pipe, ReadBuf)
          /\ pc' = "drain"
          /\ UNCHANGED drainErr
       \/ /\ pipe = 0
          /\ pc' = "rereg"
          /\ UNCHANGED <<pipe, drainErr>>
       \/ /\ faults
          /\ pc' = "rereg"
          /\ drainErr' = TRUE
          /\ UNCHANGED pipe
    /\ UNCHANGED <<alive, knotes, descriptors, events, timeout, ret, calls, eventlist,
                   lapsed, lostByte, yielded, concurrent>>

\* a wait that drops the result of its call of interest
WaitResultDropped(r, ev) == Ok(ev.len)

\* what wait returns, given the result of its call of interest
WaitResult(r, ev) == IF r.ok THEN Ok(ev.len) ELSE r

\* a wait that returns without re-registering the wake channel
WaitReregSkipped(codes) ==
    /\ pc = "rereg"
    /\ codes \in CodesFor(knotes, InterestChangelist(read_stream, NotifyEvent), TRUE)
    /\ ret' = [op |-> "wait", res |-> Ok(events.len)]
    /\ pc' = "idle"
    /\ timeout' = "None"
    /\ drainErr' = FALSE
    /\ concurrent' = {}
    /\ UNCHANGED <<alive, knotes, pipe, descriptors, events, calls, eventlist, lapsed,
                   lostByte, yielded>>

\* the re-registration of the wake channel and the return of wait, when the
\* kernel reports codes
WaitReregK(codes) ==
    /\ pc = "rereg"
    /\ codes \in CodesFor(knotes, InterestChangelist(read_stream, NotifyEvent), TRUE)
    /\ knotes' = interest(knotes, read_stream, NotifyEvent, codes).knotes
    /\ ret' = [op |-> "wait",
               res |-> WaitResult(interest(knotes, read_stream, NotifyEvent, codes).res,
                                  events)]
    /\ pc' = "idle"
    /\ timeout' = "None"
    /\ drainErr' = FALSE
    /\ concurrent' = {}
    /\ UNCHANGED <<alive, pipe, descriptors, events, calls, eventlist, lapsed,
                   lostByte, yielded>>

WaitRereg(faults) ==
    \E codes \in CodesFor(knotes, InterestChangelist(read_stream, NotifyEvent), faults) :
        WaitReregK(codes)

(* ------------------------------- Events -------------------------------- *)
\* an iter over the whole list, whatever the logical length
IterAll(ev) ==
    [i \in 1 .. Capacity |->
        [key |-> ev.list[i].udata,
         readable |-> ev.list[i].filter = EVFILT_READ,
         writable |-> \/ ev.list[i].filter = EVFILT_WRITE
                      \/ /\ ev.list[i].filter = EVFILT_READ
                         /\ "EV_EOF" \in ev.list[i].flags]]

\* an iter that reports writability for the write filter only
IterNoEof(ev) ==
    [i \in 1 .. ev.len |->
        [key |-> ev.list[i].udata,
         readable |-> ev.list[i].filter = EVFILT_READ,
         writable |-> ev.list[i].filter = EVFILT_WRITE]]

\* an iter that takes the write filter for readability
IterSwapped(ev) ==
    [i \in 1 .. ev.len |->
        [key |-> ev.list[i].udata,
         readable |-> ev.list[i].filter = EVFILT_WRITE,
         writable |-> ev.list[i].filter = EVFILT_READ]]

\* Events::iter: the Event of each of the first len records
Iter(ev) ==
    [i \in 1 .. ev.len |->
        [key |-> ev.list[i].udata,
         readable |-> ev.list[i].filter = EVFILT_READ,
         writable |-> \/ ev.list[i].filter = EVFILT_WRITE
                      \/ /\ ev.list[i].filter = EVFILT_READ
                         /\ "EV_EOF" \in ev.list[i].flags]]

\* a caller iterates over the buffer; no wait is filling it meanwhile
IterCall ==
    /\ pc = "idle"
    /\ yielded' = Iter(events)
    /\ ret' = [op |-> "iter", res |-> Ok(Len(Iter(events)))]
    /\ UNCHANGED <<alive, knotes, pipe, descriptors, events, pc, timeout, calls,
                   eventlist, lapsed, drainErr, lostByte, concurrent>>

(* -------------------------------- drop --------------------------------- *)
\* Drop for Poller: the wake registration is removed and the queue closed
Drop ==
    /\ alive
    /\ pc = "idle"
    /\ calls < MaxCalls
    /\ calls' = calls + 1
    /\ alive' = FALSE
    /\ knotes' = {}
    /\ ret' = [op |-> "drop", res |-> Ok(0)]
    /\ UNCHANGED <<pipe, descriptors, events, pc, timeout, eventlist, lapsed, drainErr,
                   lostByte, yielded, concurrent>>

(* --------------------------- the descriptors --------------------------- *)
PeerWrites(fd) ==
    /\ alive
    /\ fd \notin readable
    /\ readable' = readable \cup {fd}
    /\ UNCHANGED <<alive, knotes, pipe, writable, eof, events, pc, timeout, ret, calls,
                   eventlist, lapsed, drainErr, lostByte, yielded, concurrent>>

CallerReads(fd) ==
    /\ alive
    /\ fd \in readable
    /\ readable' = readable \ {fd}
    /\ UNCHANGED <<alive, knotes, pipe, writable, eof, events, pc, timeout, ret, calls,
                   eventlist, lapsed, drainErr, lostByte, yielded, concurrent>>

BecomesWritable(fd) ==
    /\ alive
    /\ fd \notin writable
    /\ writable' = writable \cup {fd}
    /\ UNCHANGED <<alive, knotes, pipe, readable, eof, events, pc, timeout, ret, calls,
                   eventlist, lapsed, drainErr, lostByte, yielded, concurrent>>

PeerCloses(fd) ==
    /\ alive
    /\ fd \notin eof
    /\ eof' = eof \cup {fd}
    /\ UNCHANGED <<alive, knotes, pipe, readable, writable, events, pc, timeout, ret,
                   calls, eventlist, lapsed, drainErr, lostByte, yielded, concurrent>>

(* ------------------------------ the system ----------------------------- *)
\* Poller::new: the wake channel's read side is registered in an empty queue
new == interest({}, read_stream, NotifyEvent, <<0, ENOENT>>)

\* Events::new
EventsNew == [list |-> [i \in 1 .. Capacity |-> ZeroKevent], len |-> 0]

Init ==
    /\ alive = TRUE
    /\ knotes = new.knotes
    /\ pipe = 0
    /\ readable = {}
    /\ writable = {}
    /\ eof = {}
    /\ events = EventsNew
    /\ pc = "idle"
    /\ timeout = "None"
    /\ ret = [op |-> "new", res |-> new.res]
    /\ calls = 0
    /\ eventlist = << >>
    /\ lapsed = {}
    /\ drainErr = FALSE
    /\ lostByte = FALSE
    /\ yielded = << >>
    /\ concurrent = {}

Environment ==
    \/ \E fd \in UserFds : PeerWrites(fd)
    \/ \E fd \in UserFds : CallerReads(fd)
    \/ \E fd \in UserFds : BecomesWritable(fd)
    \/ \E fd \in UserFds : PeerCloses(fd)

\* every operation, the kernel failing where it can
Next ==
    \/ \E fd \in UserFds, ev \in Event : Interest(fd, ev, TRUE)
    \/ \E fd \in UserFds : Remove(fd, TRUE)
    \/ Notify
    \/ \E t \in {"None", "Some"} : WaitCall(t)
    \/ WaitKevent(TRUE)
    \/ WaitDrain(TRUE)
    \/ WaitRereg(TRUE)
    \/ Drop
    \/ IterCall
    \/ Environment

Spec == Init /\ [][Next]_vars

\* every operation, the kernel never failing; a wait call in progress goes on
NextNoFault ==
    \/ \E fd \in UserFds, ev \in Event : Interest(fd, ev, FALSE)
    \/ \E fd \in UserFds : Remove(fd, FALSE)
    \/ Notify
    \/ \E t \in {"None", "Some"} : WaitCall(t)
    \/ WaitKevent(FALSE)
    \/ WaitDrain(FALSE)
    \/ WaitRereg(FALSE)
    \/ Drop
    \/ IterCall
    \/ Environment

FairSpec ==
    /\ Init
    /\ [][NextNoFault]_vars
    /\ WF_vars(WaitKevent(FALSE))
    /\ WF_vars(WaitDrain(FALSE))
    /\ WF_vars(WaitRereg(FALSE))

(* ------------------- the check loops, on any event list ---------------- *)
\* the codes an event list entry may carry
Errnos == {0, ENOENT, EBADF, ENOMEM, EPIPE}

\* the entries of an event list for the filter: a change's flags, with or
\* without EV_ERROR, and a code
EntriesFor(filter) ==
    {[ident |-> 1, filter |-> filter, udata |-> 0, data |-> d,
      flags |-> {"EV_RECEIPT", op} \cup err] :
        d \in Errnos, op \in {"EV_ADD", "EV_DELETE"}, err \in {{}, {"EV_ERROR"}}}

\* the check loops start on an event list of two entries
InitCheck ==
    /\ Init!1 /\ Init!2 /\ Init!3 /\ Init!4 /\ Init!5 /\ Init!6 /\ Init!7 /\ Init!8
    /\ Init!9 /\ Init!10 /\ Init!11 /\ Init!13 /\ Init!14 /\ Init!15
    /\ Init!16 /\ Init!17
    /\ eventlist \in {<<r, w>> : r \in EntriesFor(EVFILT_READ), w \in EntriesFor(EVFILT_WRITE)}

\* interest's loop runs over the event list
CheckInterest ==
    /\ ret.op = "new"
    /\ ret' = [op |-> "interest", res |-> InterestCheck(eventlist)]
    /\ UNCHANGED <<alive, knotes, pipe, descriptors, events, pc, timeout, calls,
                   eventlist, lapsed, drainErr, lostByte, yielded, concurrent>>

\* remove's loop runs over the event list
CheckRemove ==
    /\ ret.op = "new"
    /\ ret' = [op |-> "remove", res |-> RemoveCheck(eventlist)]
    /\ UNCHANGED <<alive, knotes, pipe, descriptors, events, pc, timeout, calls,
                   eventlist, lapsed, drainErr, lostByte, yielded, concurrent>>

NextCheck == CheckInterest \/ CheckRemove

CheckSpec == InitCheck /\ [][NextCheck]_vars

(* ----------------------- iter, on any buffer -------------------------- *)
\* a filter other than the two the Poller registers
EVFILT_OTHER == "EVFILT_OTHER"

\* the raw records a buffer may hold: any tag, any filter, with or without EV_EOF
RawRecords ==
    [ident : {1}, filter : Filters \cup {EVFILT_OTHER}, flags : {{}, {"EV_EOF"}},
     udata : Keys \cup {NOTIFY_KEY}]

\* iter starts on a buffer of any records and any logical length
InitIter ==
    /\ Init!1 /\ Init!2 /\ Init!3 /\ Init!4 /\ Init!5 /\ Init!6 /\ Init!8 /\ Init!9
    /\ Init!10 /\ Init!11 /\ Init!12 /\ Init!13 /\ Init!14 /\ Init!15
    /\ Init!16 /\ Init!17
    /\ events \in [list : [1 .. Capacity -> RawRecords], len : 0 .. Capacity]

NextIter == IterCall

IterSpec == InitIter /\ [][NextIter]_vars

(* ----------------- the calls that change registrations ----------------- *)
\* the callers only change registrations, of descriptors in any state of
\* readiness: no wait, no notify
NextInterest ==
    \/ \E fd \in UserFds, ev \in Event : Interest(fd, ev, TRUE)
    \/ \E fd \in UserFds : Remove(fd, TRUE)
    \/ Environment

InterestSpec == Init /\ [][NextInterest]_vars

(* ------------------------------- claims -------------------------------- *)
\* the wake channel's read side is registered for reading under the reserved key
WakeRegistered ==
    \E k \in knotes : k.ident = read_stream /\ k.filter = EVFILT_READ /\ k.udata = NOTIFY_KEY

\* the sequence of Events holds an event with the reserved key
HasNotifyEvent(ev) == \E i \in 1 .. ev.len : Iter(ev)[i].key = NOTIFY_KEY

\* this step is the return of notify
NotifyReturns == calls' = calls + 1 /\ pc' = pc /\ ret'.op = "notify"

C2_NotificationReported ==
    [][(pc = "drain" /\ pipe' < pipe) => HasNotifyEvent(events)]_vars

\* this step is the return of interest
InterestReturns == calls' = calls + 1 /\ pc' = pc /\ ret'.op = "interest"

\* this step is the return of remove
RemoveReturns == calls' = calls + 1 /\ pc' = pc /\ ret'.op = "remove"

\* this step is the return of the kernel call of wait with its records
KernelReturns == pc = "kevent" /\ pc' = "drain"

\* this step is the return of wait after its re-registration
WaitReturns == pc = "rereg" /\ pc' = "idle"

\* C3: a wait reports no event for a caller's descriptor and filter that an
\* earlier wait reported, unless interest() was called for that descriptor
\* with that direction enabled in between.
C3_OneShot ==
    [][KernelReturns =>
          \A i \in 1 .. events'.len :
              <<events'.list[i].ident, events'.list[i].filter>> \notin lapsed]_vars

\* a wait that reported nothing although the descriptor, reported by an earlier
\* wait, still has data to read
C3_Witness ==
    /\ pc = "drain"
    /\ events.len = 0
    /\ <<1, EVFILT_READ>> \in lapsed
    /\ 1 \in readable

\* the events a wait's kernel call must report for the caller's ready read
\* registrations
ReadsReported(ev) ==
    \A k \in ActiveKnotes :
        (k.ident \in UserFds /\ k.filter = EVFILT_READ) =>
            /\ ev.len >= 1
            /\ \E i \in 1 .. ev.len : Iter(ev)[i].key = k.udata /\ Iter(ev)[i].readable

\* C4 as stated: the kernel call of a wait with a timeout reports every read
\* registration of the caller whose descriptor is readable.
C4_ReadinessReported ==
    [][(KernelReturns /\ timeout = "Some") => ReadsReported(events')]_vars

\* C4, amended: the kernel call of a wait with a timeout reports every read
\* registration of the caller whose descriptor is readable when no more
\* registrations are ready than the buffer holds; the buffer is left alone until
\* the wait returns, and a wait that succeeds returns the buffer's length.
C4_ReadinessWithinCapacity ==
    /\ [][(KernelReturns /\ timeout = "Some" /\ Cardinality(ActiveKnotes) <= Capacity)
           => ReadsReported(events')]_vars
    /\ [][(pc \in {"drain", "rereg"}) => (events' = events)]_vars
    /\ [][(WaitReturns /\ ret'.res.ok) => ret'.res.val = events.len]_vars

\* the kernel call of a wait with a timeout reported a read event of the caller
C4_Witness ==
    /\ pc = "drain"
    /\ timeout = "Some"
    /\ \E i \in 1 .. events.len :
          /\ events.list[i].ident \in UserFds
          /\ Iter(events)[i].readable
          /\ Iter(events)[i].key \in Keys

\* the registrations of the descriptors other than fd do not change in this step
OthersUnchanged(fd) == {k \in knotes' : k.ident # fd} = {k \in knotes : k.ident # fd}

\* C5 as stated: after interest(fd, ev) returned success, fd has a read
\* registration iff ev.readable and a write registration iff ev.writable, each
\* with key ev.key, and no other descriptor's registration changed.
C5_InterestPostcondition ==
    [][(InterestReturns /\ ret'.res.ok) =>
        \A fd \in UserFds, ev \in Event :
        \A codes \in CodesFor(knotes, InterestChangelist(fd, ev), TRUE) :
          InterestK(fd, ev, codes) =>
              /\ (KnotesOf(knotes', fd, EVFILT_READ) # {}) <=> ev.readable
              /\ (KnotesOf(knotes', fd, EVFILT_WRITE) # {}) <=> ev.writable
              /\ \A k \in knotes' : k.ident = fd => k.udata = ev.key
              /\ OthersUnchanged(fd)]_vars

\* C5, amended: the same, except that a write registration whose addition
\* reported the tolerated EPIPE is not made.
C5_InterestPostconditionEpipe ==
    [][(InterestReturns /\ ret'.res.ok) =>
        \A fd \in UserFds, ev \in Event :
        \A codes \in CodesFor(knotes, InterestChangelist(fd, ev), TRUE) :
          InterestK(fd, ev, codes) =>
              /\ (KnotesOf(knotes', fd, EVFILT_READ) # {}) <=> ev.readable
              /\ (KnotesOf(knotes', fd, EVFILT_WRITE) # {})
                    <=> (ev.writable /\ codes[2] # EPIPE)
              /\ \A k \in knotes' : k.ident = fd => k.udata = ev.key
              /\ OthersUnchanged(fd)]_vars

\* interest returned success and left the descriptor with a read registration
\* and no write registration
C5_Witness ==
    /\ ret.op = "interest"
    /\ ret.res.ok
    /\ KnotesOf(knotes, 1, EVFILT_READ) # {}
    /\ KnotesOf(knotes, 1, EVFILT_WRITE) = {}
    /\ \A k \in knotes : k.ident = 1 => k.udata = 1

\* C6 as stated: while the Poller exists the wake channel's read side is
\* registered under the reserved key and the write side is not registered.
C6_WakeAlwaysRegistered ==
    alive => (WakeRegistered /\ \A k \in knotes : k.ident # write_stream)

\* C6, amended: the write side is never registered; the read side is registered
\* after new() and after every wait that returns success, and its registration
\* goes away only when the kernel call of a wait reports it or the Poller is
\* dropped.
C6_WakeRegisteredBetweenWaits ==
    /\ WakeRegistered
    /\ [](\A k \in knotes : k.ident # write_stream)
    /\ [][(WaitReturns /\ ret'.res.ok) => WakeRegistered']_vars
    /\ [][(WakeRegistered /\ ~WakeRegistered') => (KernelReturns \/ ~alive')]_vars

\* a wait that reported the wake event returned success and the read side is
\* registered again
C6_Witness ==
    /\ pc = "idle"
    /\ ret.op = "wait"
    /\ ret.res.ok
    /\ HasNotifyEvent(events)
    /\ WakeRegistered

StatedTolerated(e) ==
    \/ "EV_ERROR" \notin e.flags
    \/ e.data = 0
    \/ e.data = ENOENT /\ "EV_DELETE" \in e.flags
    \/ e.data = EPIPE /\ e.filter = EVFILT_WRITE /\ "EV_ADD" \in e.flags

\* the entry reports an error that interest tolerates: ENOENT or EPIPE
Tolerated(e) == "EV_ERROR" \notin e.flags \/ e.data \in {0, ENOENT, EPIPE}

\* C8 as stated: interest fails iff a sub-change reports an error other than
\* 'no such registration' on a removal or broken pipe on the write addition.
C8_StatedErrorPolicy ==
    ret.op = "interest" =>
        (ret.res.ok <=> \A i \in 1 .. Len(eventlist) : StatedTolerated(eventlist[i]))

\* C8, amended: interest fails iff a sub-change reports an error other than
\* ENOENT and EPIPE, whatever the filter and whether the sub-change adds or
\* removes, and then with the code of the first such sub-change.
C8_ErrorPolicy ==
    ret.op = "interest" =>
        /\ ret.res.ok <=> \A i \in 1 .. Len(eventlist) : Tolerated(eventlist[i])
        /\ ~ret.res.ok =>
              \E i \in 1 .. Len(eventlist) :
                  /\ ~Tolerated(eventlist[i])
                  /\ ret.res.val = eventlist[i].data
                  /\ \A j \in 1 .. (i - 1) : Tolerated(eventlist[j])

\* interest returned success on an event list that reports broken pipe for the
\* read filter
C8_Witness ==
    /\ ret.op = "interest"
    /\ ret.res.ok
    /\ Len(eventlist) = 2
    /\ "EV_ERROR" \in eventlist[1].flags
    /\ eventlist[1].filter = EVFILT_READ
    /\ eventlist[1].data = EPIPE

\* the codes report a failure of the wake channel's re-registration
ReregFails(codes) == \E i \in {1, 2} : codes[i] \notin {0, ENOENT, EPIPE}

\* C9 as stated: a wait whose drain ended on a read error, or whose
\* re-registration failed, returns an error.
C9_PostWaitFailuresSurfaced ==
    [][WaitReturns =>
        \A codes \in CodesFor(knotes, InterestChangelist(read_stream, NotifyEvent), TRUE) :
            (WaitReregK(codes) /\ (drainErr \/ ReregFails(codes))) => ~ret'.res.ok]_vars

\* C9, amended: a wait whose re-registration failed returns that error; a read
\* error in the drain only ends the drain, and the wait goes on to the
\* re-registration with nothing returned yet.
C9_ReregFailureSurfaced ==
    /\ [][WaitReturns =>
            \A codes \in CodesFor(knotes, InterestChangelist(read_stream, NotifyEvent), TRUE) :
                (WaitReregK(codes) /\ ReregFails(codes)) =>
                    (~ret'.res.ok /\ ret'.res.val \in {codes[1], codes[2]})]_vars
    /\ [][(pc = "drain" /\ drainErr') => (pc' = "rereg" /\ ret' = ret)]_vars

\* a wait returned the error of its re-registration
C9_Witness ==
    /\ pc = "idle"
    /\ ret.op = "wait"
    /\ ~ret.res.ok
    /\ ret.res.val = ENOMEM
    /\ ~WakeRegistered

C11_EventTranslation ==
    ret.op = "iter" =>
        /\ Len(yielded) = events.len
        /\ \A i \in 1 .. events.len :
              /\ yielded[i].key = events.list[i].udata
              /\ yielded[i].readable <=> (events.list[i].filter = EVFILT_READ)
              /\ yielded[i].writable <=>
                    \/ events.list[i].filter = EVFILT_WRITE
                    \/ /\ events.list[i].filter = EVFILT_READ
                       /\ "EV_EOF" \in events.list[i].flags

\* iter translated a read record that carries EV_EOF into an Event that is
\* readable and writable, next to a record of another filter that is neither
C11_Witness ==
    /\ ret.op = "iter"
    /\ events.len = 2
    /\ events.list[1].filter = EVFILT_READ
    /\ "EV_EOF" \in events.list[1].flags
    /\ yielded[1] = [key |-> events.list[1].udata, readable |-> TRUE, writable |-> TRUE]
    /\ events.list[2].filter = EVFILT_OTHER
    /\ yielded[2] = [key |-> events.list[2].udata, readable |-> FALSE, writable |-> FALSE]

\* C12: the buffer's logical length is always between 0 and its capacity; when
\* the kernel call of a wait returns with no more registrations ready than the
\* capacity, the buffer holds exactly one record per ready registration and
\* nothing else, the event sequence has as many events, and the wait, when it
\* returns success, returns that number.
C12_CapacityRoundTrip ==
    /\ [](events.len \in 0 .. Capacity)
    /\ [][(KernelReturns /\ Cardinality(ActiveKnotes) <= Capacity) =>
            /\ events'.len = Cardinality(ActiveKnotes)
            /\ {events'.list[i] : i \in 1 .. events'.len} =
                   {RawEvent(k) : k \in ActiveKnotes}
            /\ Len(Iter(events')) = Cardinality(ActiveKnotes)]_vars
    /\ [][(WaitReturns /\ ret'.res.ok) =>
            (events' = events /\ ret'.res.val = Len(Iter(events')))]_vars

\* a wait returned 2 with the buffer holding the wake channel's record and the
\* read record of the caller's descriptor, both ready at once
C12_Witness ==
    /\ pc = "idle"
    /\ ret = [op |-> "wait", res |-> Ok(2)]
    /\ events.len = 2
    /\ {events.list[1].ident, events.list[2].ident} = {1, read_stream}

\* no registration changes in this step
SameRegistrations == knotes' = knotes

Reported(ev) == {ev.list[i] : i \in 1 .. ev.len}

\* the registrations of descriptors other than that of k do not change in this step
OnlyDescriptorOf(k) ==
    {x \in knotes' : x.ident # k.ident} = {x \in knotes : x.ident # k.ident}

ReportedKnotes(ev) == {k \in knotes : RawEvent(k) \in Reported(ev)}

NotifyEvents(ev) == {i \in 1 .. ev.len : Iter(ev)[i].key = NOTIFY_KEY}

\* C16: the kernel call of a wait that returns while bytes are pending in the
\* wake channel, however many notify calls wrote them, reports exactly one
\* event with the reserved key; the drain loop ends with the channel empty; and
\* an event with the reserved key is reported only when a byte is pending.
C16_Coalescing ==
    /\ [][(KernelReturns /\ pipe > 0) => Cardinality(NotifyEvents(events')) = 1]_vars
    /\ [][(pc = "drain" /\ pc' = "rereg") => pipe = 0]_vars
    /\ [][(KernelReturns /\ NotifyEvents(events') # {}) => pipe > 0]_vars

\* this step is an iteration over the buffer
IterReturns ==
    /\ pc = "idle" /\ pc' = "idle"
    /\ ret'.op = "iter"
    /\ yielded' # yielded \/ ret' # ret

\* the Event that iter makes of the record the kernel writes for registration k
EventOf(k) ==
    [key |-> k.udata,
     readable |-> k.filter = EVFILT_READ,
     writable |-> k.filter = EVFILT_WRITE \/ (k.filter = EVFILT_READ /\ k.ident \in eof)]

\* C17: the event sequence after the kernel call of a wait has the length the
\* kernel returned and consists of the translations of records of registrations
\* ready at that call, whatever an earlier wait left in the buffer; a wait that
\* returns success returns that length; an iteration yields that sequence and
\* changes nothing, and until the next wait every iteration yields the same.
C17_LatestWaitOnly ==
    /\ [][KernelReturns =>
            /\ Len(Iter(events')) = Min(Cardinality(ActiveKnotes), Capacity)
            /\ \A i \in 1 .. Len(Iter(events')) :
                  \E k \in ActiveKnotes :
                      events'.list[i] = RawEvent(k) /\ Iter(events')[i] = EventOf(k)]_vars
    /\ [][(pc \in {"drain", "rereg"}) => Iter(events') = Iter(events)]_vars
    /\ [][(WaitReturns /\ ret'.res.ok) => Len(Iter(events')) = ret'.res.val]_vars
    /\ [][IterReturns =>
            /\ yielded' = Iter(events)
            /\ Len(yielded') = events.len
            /\ ret'.res = Ok(events.len)
            /\ UNCHANGED <<events, knotes, pipe, descriptors, alive, calls>>]_vars
    /\ [](yielded \in {<< >>, Iter(events)})

\* an iteration yielded the one event of a wait that returned 1, while the
\* buffer's second slot still holds the wake record of an earlier wait that
\* returned 2
C17_Witness ==
    /\ ret = [op |-> "iter", res |-> Ok(1)]
    /\ Len(yielded) = 1
    /\ yielded[1].key \in Keys
    /\ events.len = 1
    /\ events.list[2].udata = NOTIFY_KEY
    /\ events.list[2].ident = read_stream

\* this step is the return of wait on the failure of its kernel call
KernelFails == pc = "kevent" /\ pc' = "idle"

\* this step is the return of the kernel call of the wait that follows, with
\* no call in between, a wait whose kernel call failed while a byte was pending
NextAfterFailure ==
    KernelReturns /\ ret = [op |-> "wait", res |-> Err(EINTR)] /\ pipe > 0

\* a wait whose kernel call fails returns the error at once and leaves the
\* buffer, the wake channel and every registration as they were
FailureKeepsState ==
    [][KernelFails =>
          /\ ret' = [op |-> "wait", res |-> Err(EINTR)]
          /\ UNCHANGED <<events, pipe, knotes, lapsed, calls, descriptors, alive>>]_vars

Wants(ev, filter) == IF filter = EVFILT_READ THEN ev.readable ELSE ev.writable

\* the code the kernel reported for the sub-change of filter
CodeOf(codes, filter) == IF filter = EVFILT_READ THEN codes[1] ELSE codes[2]

\* C19: whatever interest(fd, ev) returns, each filter's sub-change is in
\* effect iff the kernel reported no error for it: with code 0 the registration
\* exists under ev.key when the direction is enabled and does not exist when
\* it is not, with any other code the filter's registration is as before; a
\* failed interest undoes nothing.
C19_NoRollback ==
    [][InterestReturns =>
        \A fd \in UserFds, ev \in Event :
        \A codes \in CodesFor(knotes, InterestChangelist(fd, ev), TRUE) :
          InterestK(fd, ev, codes) =>
            \A f \in Filters :
              /\ (CodeOf(codes, f) = 0 /\ Wants(ev, f)) =>
                    \E k \in KnotesOf(knotes', fd, f) : k.udata = ev.key
              /\ (CodeOf(codes, f) = 0 /\ ~Wants(ev, f)) => KnotesOf(knotes', fd, f) = {}
              /\ CodeOf(codes, f) # 0 => KnotesOf(knotes', fd, f) = KnotesOf(knotes, fd, f)]_vars

\* the first call, an interest, failed for lack of memory and yet left the
\* descriptor with a read registration
C19_Witness ==
    /\ calls = 1
    /\ ret = [op |-> "interest", res |-> Err(ENOMEM)]
    /\ KnotesOf(knotes, 1, EVFILT_READ) # {}
    /\ KnotesOf(knotes, 1, EVFILT_WRITE) = {}


(* ------------------------------- C20 ---------------------------------- *)
\* the wait in progress was called with None and nothing it could report is ready
BlockedForever == pc = "kevent" /\ timeout = "None" /\ ActiveKnotes = {}

\* C20 as stated: a wait called with None that returns success returns a
\* count of at least 1; a wait that returns success with 0 was called with
\* Some(timeout); and a wait called with None does not return while no
\* registration is ready.
C20_NeverReturns ==
    [][/\ (WaitReturns /\ timeout = "None" /\ ret'.res.ok) => ret'.res.val >= 1
       /\ (WaitReturns /\ ret'.res = Ok(0)) => timeout = "Some"
       /\ BlockedForever => pc' = "kevent"]_vars

\* C20: a wait called with None that returns success returns a count of at
\* least 1; a wait that returns success with 0 was called with Some(timeout);
\* and while no registration is ready, a wait called with None stays in its
\* kernel call, which it leaves only by the failure of that call, returning
\* the error with the buffer and the registrations as they were.
C20_NeverEmpty ==
    [][/\ (WaitReturns /\ timeout = "None" /\ ret'.res.ok) => ret'.res.val >= 1
       /\ (WaitReturns /\ ret'.res = Ok(0)) => timeout = "Some"
       /\ (KernelReturns /\ timeout = "None") => events'.len >= 1
       /\ BlockedForever =>
             \/ pc' = "kevent"
             \/ KernelFails /\ ~ret'.res.ok /\ events' = events /\ knotes' = knotes]_vars

\* a wait called with None is about to return the one event of the wake channel
C20_Witness ==
    /\ pc = "rereg"
    /\ timeout = "None"
    /\ events.len = 1
    /\ events.list[1].udata = NOTIFY_KEY

====
